---- MODULE Spec2Model ----
(***************************************************************************)
(* Model of the invoice extraction script src/app.py: one Streamlit script *)
(* run per invocation, the session cache that survives between runs, the   *)
(* per-document retry loop process_pdf, the batch loop and the final       *)
(* aggregation.  Strings whose characters matter (dictionary keys) are     *)
(* tuples of one-character strings; file names are atomic.                 *)
(***************************************************************************)
EXTENDS Naturals, Integers, Sequences, FiniteSets, TLC

\* ---------------------------------------------------------------- bounds
MaxFiles == 2
MaxRuns == 3
MaxKeys == 2
MaxText == 5

\* ------------------------------------------------------ program constants
\* default of the max_retries parameter of process_pdf
max_retries == 3
\* default of the retry_delay parameter of process_pdf, in seconds
retry_delay == 5

\* ------------------------------------------------------------ Python idiom
\* None and a present value: None is the empty tuple, Some(x) the 1-tuple.
None == <<>>
Some(x) == <<x>>

\* truth value of `if x:` for x that is None or a list
Truthy_stores_empty(x) == x # None
Truthy(x) == x # None /\ x[1] # <<>>

Range(s) == {s[i] : i \in 1..Len(s)}

\* -------------------------------------------------------------- file names
Names == {"a.pdf", "b.pdf"}

\* string order of the file names, as used by sorted()
NameOrd(n) == IF n = "a.pdf" THEN 1 ELSE 2

RECURSIVE InsertSorted(_, _)
InsertSorted(n, s) ==
    IF s = <<>> THEN <<n>>
    ELSE IF NameOrd(n) < NameOrd(Head(s)) THEN <<n>> \o s
    ELSE <<Head(s)>> \o InsertSorted(n, Tail(s))

RECURSIVE sorted(_)
sorted(s) == IF s = <<>> THEN <<>> ELSE InsertSorted(Head(s), sorted(Tail(s)))

RECURSIVE SeqsUpTo(_, _)
SeqsUpTo(S, n) ==
    IF n = 0 THEN {<<>>}
    ELSE LET shorter == SeqsUpTo(S, n - 1)
         IN  shorter \cup {Append(s, x) : s \in shorter, x \in S}

\* what st.file_uploader can return: no file, or up to MaxFiles files
Uploads == SeqsUpTo(Names, MaxFiles)

\* os.path.join(temp_dir, name) and os.path.join(temp_dir, f'temp_{name}.png')
PdfPath(n) == <<n>>
ImagePath(n) == <<"temp_", n, ".png">>
DiskPaths == {PdfPath(n) : n \in Names} \cup {ImagePath(n) : n \in Names}
EmptyDisk == [p \in DiskPaths |-> 0]

\* ----------------------------------------------------- field normalization
Whitespace == {" ", "\t"}

UpperPairs ==
    { <<"a", "A">>, <<"b", "B">>, <<"c", "C">>, <<"d", "D">>, <<"e", "E">>,
      <<"f", "F">>, <<"g", "G">>, <<"h", "H">>, <<"i", "I">>, <<"j", "J">>,
      <<"k", "K">>, <<"l", "L">>, <<"m", "M">>, <<"n", "N">>, <<"o", "O">>,
      <<"p", "P">>, <<"q", "Q">>, <<"r", "R">>, <<"s", "S">>, <<"t", "T">>,
      <<"u", "U">>, <<"v", "V">>, <<"w", "W">>, <<"x", "X">>, <<"y", "Y">>,
      <<"z", "Z">> }

UpperChar(c) ==
    IF \E p \in UpperPairs : p[1] = c
    THEN (CHOOSE p \in UpperPairs : p[1] = c)[2]
    ELSE c

\* str.upper()
upper(s) == [i \in 1..Len(s) |-> UpperChar(s[i])]

RECURSIVE lstrip(_)
lstrip(s) ==
    IF s # <<>> /\ Head(s) \in Whitespace THEN lstrip(Tail(s)) ELSE s

RECURSIVE rstrip(_)
rstrip(s) ==
    IF s # <<>> /\ s[Len(s)] \in Whitespace
    THEN rstrip(SubSeq(s, 1, Len(s) - 1)) ELSE s

\* str.strip()
strip(s) == rstrip(lstrip(s))

field_name_mapping ==
  { <<<<"I", "N", "V", "O", "I", "C", "E", " ", "N", "O", ".">>,
      <<"I", "N", "V", "O", "I", "C", "E", "_", "N", "O">>>>,
    <<<<"D", "A", "T", "E">>,
      <<"I", "N", "V", "O", "I", "C", "E", "_", "D", "A", "T", "E">>>>,
    <<<<"P", "O", "#">>,
      <<"P", "O", "_", "N", "U", "M", "B", "E", "R">>>>,
    <<<<"M", "E", "R", "C", "H", "A", "N", "D", "I", "S", "E", " ", "N", "E", "T">>,
      <<"M", "E", "R", "C", "H", "A", "N", "D", "I", "S", "E", "_", "N", "E", "T">>>>,
    <<<<"F", "R", "E", "I", "G", "H", "T", " ", "C", "H", "A", "R", "G", "E">>,
      <<"F", "R", "E", "I", "G", "H", "T", "_", "C", "H", "A", "R", "G", "E">>>>,
    <<<<"S", "M", "A", "L", "L", " ", "O", "R", "D", "E", "R", " ", "F", "E", "E">>,
      <<"S", "M", "A", "L", "L", "_", "O", "R", "D", "E", "R", "_", "F", "E", "E">>>>,
    <<<<"I", "N", "V", "O", "I", "C", "E", " ", "T", "O", "T", "A", "L">>,
      <<"I", "N", "V", "O", "I", "C", "E", "_", "T", "O", "T", "A", "L">>>> }

\* field_name_mapping.get(k, default)
MappingGet(k, default) ==
    IF \E e \in field_name_mapping : e[1] = k
    THEN (CHOOSE e \in field_name_mapping : e[1] = k)[2]
    ELSE default

\* the normalized key of one raw key (line 74)
NormalizedKey_lookup_raw(key) == MappingGet(strip(key), upper(strip(key)))
NormalizedKey(key) == MappingGet(upper(strip(key)), upper(strip(key)))

\* A dict is the sequence of its <<key, value>> items in insertion order,
\* with pairwise distinct keys.
DictKeys(d) == {d[i][1] : i \in 1..Len(d)}
HasKey(d, k) == \E i \in 1..Len(d) : d[i][1] = k
DictGet(d, k) == d[CHOOSE i \in 1..Len(d) : d[i][1] = k][2]

\* d[k] = v : an existing key keeps its position, a new key is appended
DictSet_keeps_first(d, k, v) ==
    IF HasKey(d, k) THEN d ELSE Append(d, <<k, v>>)
DictSet(d, k, v) ==
    IF HasKey(d, k)
    THEN [i \in 1..Len(d) |-> IF d[i][1] = k THEN <<k, v>> ELSE d[i]]
    ELSE Append(d, <<k, v>>)

RECURSIVE NormalizeInto(_, _)
NormalizeInto(normalized_dict, items) ==
    IF items = <<>> THEN normalized_dict
    ELSE NormalizeInto(
             DictSet(normalized_dict, NormalizedKey(Head(items)[1]), Head(items)[2]),
             Tail(items))

normalize_field_names(data_dict) == NormalizeInto(<<>>, data_dict)


\* --------------------------------------------------------- response parsing
\* A response text is a sequence of tokens: the braces, "m" a member with a
\* scalar value, "n" a member key whose value is the object that follows,
\* "p" any other text.
Tokens == {"{", "}", "m", "n", "p"}

Opens(text) == {i \in 1..Len(text) : text[i] = "{"}
Closes(text) == {j \in 1..Len(text) : text[j] = "}"}
Min(S) == CHOOSE x \in S : \A y \in S : x <= y
Max(S) == CHOOSE x \in S : \A y \in S : y <= x

\* re.search(r'\{.*\}', text, re.DOTALL): the match starts at the first
\* '{' that has a '}' after it and, being greedy, ends at the last '}'
MatchStart(text) == Min(Opens(text))
MatchEnd_lazy(text) == Min({j \in Closes(text) : j > MatchStart(text)})
MatchEnd(text) == Max(Closes(text))
HasMatch(text) ==
    Opens(text) # {} /\ \E j \in Closes(text) : j > Min(Opens(text))

\* json.loads on a token sequence: <<position after the value, value>>,
\* position 0 when the text does not decode
RECURSIVE DecodeObject(_, _)
RECURSIVE DecodeMembers(_, _)
DecodeObject(s, i) ==
    IF i <= Len(s) /\ s[i] = "{"
    THEN LET r == DecodeMembers(s, i + 1) IN
         IF r[1] # 0 /\ r[1] <= Len(s) /\ s[r[1]] = "}"
         THEN <<r[1] + 1, r[2]>>
         ELSE <<0, <<>>>>
    ELSE <<0, <<>>>>
DecodeMembers(s, i) ==
    IF i > Len(s) THEN <<i, <<>>>>
    ELSE IF s[i] = "m"
    THEN LET r == DecodeMembers(s, i + 1) IN
         IF r[1] = 0 THEN r ELSE <<r[1], << <<"m">> >> \o r[2]>>
    ELSE IF s[i] = "n"
    THEN LET o == DecodeObject(s, i + 1) IN
         IF o[1] = 0 THEN <<0, <<>>>>
         ELSE LET r == DecodeMembers(s, o[1]) IN
              IF r[1] = 0 THEN r ELSE <<r[1], << <<"n", o[2]>> >> \o r[2]>>
    ELSE <<i, <<>>>>

\* the whole of s is one JSON object
IsObject(s) == DecodeObject(s, 1)[1] = Len(s) + 1
json_loads(s) == DecodeObject(s, 1)[2]

\* lines 131-137, 149-152: how the parsing step ends and what it decoded
ParseResponse(text) ==
    IF ~HasMatch(text)
    THEN [kind |-> "no_json", obj |-> <<>>]
    ELSE LET json_str == SubSeq(text, MatchStart(text), MatchEnd(text)) IN
         IF IsObject(json_str)
         THEN [kind |-> "ok", obj |-> json_loads(json_str)]
         ELSE [kind |-> "bad_json", obj |-> <<>>]

\* ------------------------------------------------------- model responses
PdfFileKey == <<"p", "d", "f", "_", "f", "i", "l", "e">>

\* JSON objects the model can return (already decoded), as dicts
RespDicts ==
    { << << <<"I", "n", "v", "o", "i", "c", "e", " ", "N", "o", ".">>, "A100" >>,
         << <<" ", "d", "a", "t", "e">>, "2024-01-05" >>,
         << <<"p", "d", "f", "_", "f", "i", "l", "e">>, "evil.pdf" >> >>,
      << << <<"D", "A", "T", "E">>, "2024-01-05" >>,
         << <<"d", "a", "t", "e", " ">>, "2024-02-06" >>,
         << <<"T", "o", "t", "a", "l">>, "250.00" >> >> }

\* how one attempt of the pipeline can end
Outcomes == {"raster_error", "model_error", "no_json", "bad_json",
             "remove_error", "ok"}

\* ------------------------------------------------------------------ state
VARIABLES
    session_data,          \* st.session_state.data: None or Some(list)
    uploaded_file_names,   \* st.session_state.uploaded_file_names
    pc,                    \* position of the script run
    runs,                  \* number of script runs started so far
    run_kind,              \* how the latest run went
    api_key,               \* whether the latest run found the credential
    uploaded_files,        \* names returned by st.file_uploader, in order
    prior_cached,          \* whether st.session_state.data was set when the latest run began
    pdf_files,             \* line 48
    disk,                  \* temp_dir: path -> upload whose bytes it holds, 0 = absent
    idx,                   \* batch loop index (1-based)
    attempt,               \* loop variable of process_pdf (0-based)
    result,                \* return value of process_pdf
    data,                  \* line 166
    status_placeholders,   \* line 163
    progress,              \* numerator of progress_bar.progress((idx+1)/total)
    outcome,               \* how the latest attempt of the current document ended
    attempt_reports,       \* messages shown by the latest attempt
    attempts_made,         \* attempts begun for the current document
    fails,                 \* failed attempts of the current document
    model_calls,           \* client.chat.completions.create calls, current document
    waits,                 \* time.sleep calls, current document
    slept,                 \* seconds slept, current document
    results,               \* return values of process_pdf, one per finished document
    tries,                 \* attempts made, one per finished document
    doc_events,            \* statuses reported, one sequence per document
    run_attempts,          \* attempts begun in this run
    run_waits,             \* sleeps in this run
    errors,                \* "No data was extracted" errors shown in this run
    table,                 \* data frame shown in this run: None or Some(list)
    df,                    \* line 197: the reindexed frame shown, None or Some(frame)
    norm_pc, norm_in, norm_out,  \* normalize_field_names on its own
    norm_twice,            \* normalize_field_names applied to its own output
    parse_pc, response_text, parse_result   \* the parsing step on its own

sessionVars == <<session_data, uploaded_file_names>>
runVars == <<runs, run_kind, api_key, uploaded_files, prior_cached>>
docVars == <<attempt, result, outcome, attempt_reports, attempts_made, fails,
             model_calls, waits, slept>>
batchVars == <<pdf_files, disk, idx, data, status_placeholders, progress,
               results, tries, doc_events>>
countVars == <<run_attempts, run_waits>>
outVars == <<errors, table, df>>
normVars == <<norm_pc, norm_in, norm_out, norm_twice>>
parseVars == <<parse_pc, response_text, parse_result>>
vars == <<session_data, uploaded_file_names, pc, runs, run_kind, api_key,
          uploaded_files, prior_cached, pdf_files, disk, idx,
          attempt, result, data,
          status_placeholders, progress, outcome, attempt_reports,
          attempts_made, fails, model_calls, waits, slept, results, tries,
          doc_events, run_attempts, run_waits, errors, table, df,
          norm_pc, norm_in, norm_out, norm_twice,
          parse_pc, response_text, parse_result>>

\* lines 13-17: the session starts with no cached data and no names
SessionInit ==
    /\ session_data = None
    /\ uploaded_file_names = <<>>

\* the state of a script run before it has done anything
FreshRun ==
    /\ pdf_files = <<>> /\ disk = EmptyDisk /\ idx = 0 /\ data = <<>>
    /\ status_placeholders = <<>> /\ progress = 0
    /\ results = <<>> /\ tries = <<>> /\ doc_events = <<>>
    /\ attempt = 0 /\ result = None /\ outcome = "none"
    /\ attempt_reports = {} /\ attempts_made = 0 /\ fails = 0
    /\ model_calls = 0 /\ waits = 0 /\ slept = 0
    /\ run_attempts = 0 /\ run_waits = 0
    /\ errors = 0 /\ table = None /\ df = None

FreshRunNext ==
    /\ pdf_files' = <<>> /\ disk' = EmptyDisk /\ idx' = 0 /\ data' = <<>>
    /\ status_placeholders' = <<>> /\ progress' = 0
    /\ results' = <<>> /\ tries' = <<>> /\ doc_events' = <<>>
    /\ attempt' = 0 /\ result' = None /\ outcome' = "none"
    /\ attempt_reports' = {} /\ attempts_made' = 0 /\ fails' = 0
    /\ model_calls' = 0 /\ waits' = 0 /\ slept' = 0
    /\ run_attempts' = 0 /\ run_waits' = 0
    /\ errors' = 0 /\ table' = None /\ df' = None

Init ==
    /\ SessionInit
    /\ pc = "idle" /\ runs = 0 /\ run_kind = "none"
    /\ api_key = TRUE /\ uploaded_files = <<>>
    /\ prior_cached = FALSE
    /\ FreshRun
    /\ norm_pc = "off" /\ norm_in = <<>> /\ norm_out = <<>>
    /\ norm_twice = <<>>
    /\ parse_pc = "off" /\ response_text = <<>> /\ parse_result = None


\* ------------------------------------------------------------ the table
\* lines 183 and 196
columns_order ==
    << <<"I", "N", "V", "O", "I", "C", "E", "_", "N", "O">>,
       <<"I", "N", "V", "O", "I", "C", "E", "_", "D", "A", "T", "E">>,
       <<"P", "O", "_", "N", "U", "M", "B", "E", "R">>,
       <<"M", "E", "R", "C", "H", "A", "N", "D", "I", "S", "E", "_", "N", "E", "T">>,
       <<"F", "R", "E", "I", "G", "H", "T", "_", "C", "H", "A", "R", "G", "E">>,
       <<"S", "M", "A", "L", "L", "_", "O", "R", "D", "E", "R", "_", "F", "E", "E">>,
       <<"I", "N", "V", "O", "I", "C", "E", "_", "T", "O", "T", "A", "L">>,
       <<"p", "d", "f", "_", "f", "i", "l", "e">> >>

\* the keys of the records in the order of their first appearance
RECURSIVE FirstKeys(_, _)
FirstKeys(items, seen) ==
    IF items = <<>> THEN seen
    ELSE FirstKeys(Tail(items),
                   IF Head(items)[1] \in Range(seen) THEN seen
                   ELSE Append(seen, Head(items)[1]))

RECURSIVE AllItems(_)
AllItems(records) ==
    IF records = <<>> THEN <<>>
    ELSE Head(records).fields \o AllItems(Tail(records))

\* pd.DataFrame(list of dicts): one column per key, one row per dict, a
\* cell is None (NaN) where the dict lacks the key
pd_DataFrame(records) ==
    LET cols == FirstKeys(AllItems(records), <<>>) IN
    [columns |-> cols,
     rows |-> [r \in 1..Len(records) |->
                  [c \in 1..Len(cols) |->
                      IF HasKey(records[r].fields, cols[c])
                      THEN Some(DictGet(records[r].fields, cols[c]))
                      ELSE None]]]

\* df.reindex(columns=cols): the named columns in the given order, a column
\* the frame lacks is all None
reindex(frame, cols) ==
    [columns |-> cols,
     rows |-> [r \in 1..Len(frame.rows) |->
                  [c \in 1..Len(cols) |->
                      IF cols[c] \in Range(frame.columns)
                      THEN frame.rows[r][CHOOSE k \in 1..Len(frame.columns) :
                                             frame.columns[k] = cols[c]]
                      ELSE None]]]

\* lines 195-197
ShownFrame(shown) ==
    IF shown = None THEN None
    ELSE Some(reindex(pd_DataFrame(shown[1]), columns_order))

\* --------------------------------------------------------- script helpers
\* lines 26-30: TRUE when the run stops at st.stop()
StopsOnMissingKey_never(key) == FALSE
StopsOnMissingKey(key) == ~key

\* line 41: the cache is dropped
CacheStale_always(sd, names, current) == TRUE
CacheStale_ignores_names(sd, names, current) == sd = None
CacheStale(sd, names, current) == sd = None \/ names # current

\* line 38: `if uploaded_files:`, an empty list is falsy
HasUploads_always(files) == TRUE
HasUploads(files) == files # <<>>

\* line 43: the cached result after the invalidation
Invalidated_keeps(d) == d
Invalidated(d) == None

\* lines 49-53: every upload is written to temp_dir under its own name
RECURSIVE StoreFiles(_, _, _)
StoreFiles(d, files, i) ==
    IF i > Len(files) THEN d
    ELSE StoreFiles([d EXCEPT ![PdfPath(files[i])] = i], files, i + 1)

\* lines 131-147: `return extracted_data` is reached when no step of the
\* attempt raised, the os.remove of line 145 included
Succeeds_ignores_remove(o) == o \in {"ok", "remove_error"}
Succeeds(o) == o = "ok"

\* line 177: the number of documents the progress bar counts as done
\* after the document at the 1-based position `i`; the bar shows it
\* divided by len(pdf_files)
ProgressAfter_zero_based(i) == i - 1
ProgressAfter(i) == i

\* line 156: no further attempt follows the failed attempt `a`
LastAttempt_one_short(a) == ~(a < max_retries - 2)
LastAttempt(a) == ~(a < max_retries - 1)

\* line 158: the length of the sleep after the failed attempt `a`
WaitLength_backoff(a) == retry_delay * (a + 1)
WaitLength(a) == retry_delay

\* where the script goes after the last failed attempt of a document:
\* the error is caught at line 154 and process_pdf returns (line 161)
AfterExhausted_aborts == "finish"
AfterExhausted == "ret"

\* lines 172-173
Collect_placeholder(d, r) ==
    IF r # None THEN Append(d, r[1])
    ELSE Append(d, [fields |-> <<>>, idx |-> 0, attempt |-> 0, run |-> 0, src |-> 0])
Collect(d, r) == IF r # None THEN Append(d, r[1]) ELSE d

\* lines 139-142: the record built from a decoded response
MakeRecord_names_first(resp, pdf_file) ==
    normalize_field_names(DictSet(resp, PdfFileKey, pdf_file))
MakeRecord(resp, pdf_file) ==
    DictSet(normalize_field_names(resp), PdfFileKey, pdf_file)

\* messages of a failed attempt (lines 149-160)
FailureReports(o, a) ==
    (IF o = "bad_json" THEN {"warning_parse", "info_response_text"} ELSE {})
    \cup {"warning_error"}
    \cup (IF a < max_retries - 1 THEN {"info_retrying"} ELSE {"error_all_failed"})

\* ---------------------------------------------------------------- actions
RunBegin(key, files) ==
    /\ pc = "idle"
    /\ runs < MaxRuns
    /\ runs' = runs + 1
    /\ api_key' = key
    /\ uploaded_files' = files
    /\ prior_cached' = (session_data # None)
    /\ UNCHANGED <<normVars, parseVars>>

\* lines 26-30: the credential is missing, st.stop() ends the run before
\* line 36 reads the uploader, so the run has no uploaded_files
RunHalt ==
    \E key \in BOOLEAN :
        /\ RunBegin(key, <<>>)
        /\ StopsOnMissingKey(key)
        /\ run_kind' = "halted"
        /\ pc' = "idle"
        /\ FreshRunNext
        /\ UNCHANGED sessionVars

\* line 38: nothing was uploaded, the script ends
RunNoFiles ==
    \E files \in Uploads, key \in BOOLEAN :
        /\ RunBegin(key, files)
        /\ ~StopsOnMissingKey(key)
        /\ ~HasUploads(files)
        /\ run_kind' = "nofiles"
        /\ pc' = "idle"
        /\ FreshRunNext
        /\ UNCHANGED sessionVars

\* lines 38-45, 190-208: the cache is used
RunCached ==
    \E files \in Uploads, key \in BOOLEAN :
        LET current_uploaded_file_names == sorted(files) IN
        /\ RunBegin(key, files)
        /\ ~StopsOnMissingKey(key)
        /\ HasUploads(files)
        /\ ~CacheStale(session_data, uploaded_file_names, current_uploaded_file_names)
        /\ run_kind' = "cached"
        /\ pc' = "idle"
        /\ pdf_files' = <<>> /\ disk' = EmptyDisk /\ idx' = 0 /\ data' = <<>>
        /\ status_placeholders' = <<>> /\ progress' = 0
        /\ results' = <<>> /\ tries' = <<>> /\ doc_events' = <<>>
        /\ attempt' = 0 /\ result' = None /\ outcome' = "none"
        /\ attempt_reports' = {} /\ attempts_made' = 0 /\ fails' = 0
        /\ model_calls' = 0 /\ waits' = 0 /\ slept' = 0
        /\ run_attempts' = 0 /\ run_waits' = 0
        /\ IF Truthy(session_data)
           THEN table' = session_data /\ errors' = 0
           ELSE table' = None /\ errors' = 1
        /\ df' = ShownFrame(table')
        /\ UNCHANGED sessionVars

\* lines 38-55, 163-166: the cache is dropped and the batch is set up
RunProcess ==
    \E files \in Uploads, key \in BOOLEAN :
        LET current_uploaded_file_names == sorted(files) IN
        /\ RunBegin(key, files)
        /\ ~StopsOnMissingKey(key)
        /\ HasUploads(files)
        /\ CacheStale(session_data, uploaded_file_names, current_uploaded_file_names)
        /\ uploaded_file_names' = current_uploaded_file_names
        /\ session_data' = Invalidated(session_data)
        /\ run_kind' = "batch"
        /\ pdf_files' = files
        /\ disk' = StoreFiles(EmptyDisk, files, 1)
        /\ status_placeholders' = [i \in 1..Len(files) |-> <<>>]
        /\ progress' = 0
        /\ data' = <<>>
        /\ idx' = 1
        \* line 168: the loop body runs once per stored file
        /\ pc' = IF files = <<>> THEN "finish" ELSE "loop"
        /\ results' = <<>> /\ tries' = <<>> /\ doc_events' = <<>>
        /\ attempt' = 0 /\ result' = None /\ outcome' = "none"
        /\ attempt_reports' = {} /\ attempts_made' = 0 /\ fails' = 0
        /\ model_calls' = 0 /\ waits' = 0 /\ slept' = 0
        /\ run_attempts' = 0 /\ run_waits' = 0
        /\ errors' = 0 /\ table' = None /\ df' = None

\* lines 168-170, 78-79: the loop takes the next document
BeginDoc ==
    /\ pc = "loop"
    /\ status_placeholders' =
           [status_placeholders EXCEPT ![1] = <<"markdown", pdf_files[idx], "Processing...">>]
    /\ doc_events' = Append(doc_events, <<"processing">>)
    /\ attempt' = 0 /\ result' = None /\ outcome' = "none"
    /\ attempt_reports' = {} /\ attempts_made' = 0 /\ fails' = 0
    /\ model_calls' = 0 /\ waits' = 0 /\ slept' = 0
    /\ pc' = "try"
    /\ UNCHANGED <<sessionVars, runVars,
                   pdf_files, disk, idx, data, progress, results, tries,
                   countVars, outVars, normVars, parseVars>>

\* lines 82-147: an attempt that returns a record
AttemptOk ==
    /\ pc = "try"
    /\ \E resp \in RespDicts, o \in Outcomes :
        LET pdf_file == pdf_files[idx] IN
        /\ Succeeds(o)
        /\ outcome' = o
        /\ result' = Some([fields |-> MakeRecord(resp, pdf_file),
                           idx |-> idx, attempt |-> attempt + 1, run |-> runs,
                           src |-> disk[PdfPath(pdf_file)]])
        \* line 89 writes the image, line 145 removes it
        /\ disk' = [disk EXCEPT ![ImagePath(pdf_file)] =
                                    IF o = "remove_error" THEN disk[PdfPath(pdf_file)] ELSE 0]
    /\ attempt_reports' = {}
    /\ attempts_made' = attempts_made + 1
    /\ model_calls' = model_calls + 1
    /\ run_attempts' = run_attempts + 1
    /\ pc' = "ret"
    /\ UNCHANGED <<sessionVars, runVars,
                   pdf_files, idx, attempt, data, status_placeholders, progress,
                   fails, waits, slept, results, tries, doc_events, run_waits,
                   outVars, normVars, parseVars>>

\* lines 82-161: an attempt that ends in the handler of line 154
AttemptFail ==
    /\ pc = "try"
    /\ \E o \in Outcomes :
        LET pdf_file == pdf_files[idx]
            called == IF o = "raster_error" THEN 0 ELSE 1
        IN
        /\ ~Succeeds(o)
        /\ outcome' = o
        \* line 89 is reached unless convert_from_path raised; after it only
        \* line 145 removes the image, and no failing path runs line 145
        /\ disk' = IF o = "raster_error" THEN disk
                   ELSE [disk EXCEPT ![ImagePath(pdf_file)] = disk[PdfPath(pdf_file)]]
        /\ model_calls' = model_calls + called
        /\ attempt_reports' = FailureReports(o, attempt)
    /\ attempts_made' = attempts_made + 1
    /\ run_attempts' = run_attempts + 1
    /\ fails' = fails + 1
    /\ IF LastAttempt(attempt)
       THEN /\ result' = None
            /\ pc' = AfterExhausted
       ELSE /\ result' = result
            /\ pc' = "sleep"
    /\ UNCHANGED <<sessionVars, runVars,
                   pdf_files, idx, attempt, data, status_placeholders, progress,
                   waits, slept, results, tries, doc_events, run_waits,
                   outVars, normVars, parseVars>>

\* line 158 and the next iteration of line 81
Sleep ==
    /\ pc = "sleep"
    /\ waits' = waits + 1
    /\ slept' = slept + WaitLength(attempt)
    /\ run_waits' = run_waits + 1
    /\ attempt' = attempt + 1
    /\ pc' = "try"
    /\ UNCHANGED <<sessionVars, runVars,
                   pdf_files, disk, idx, result, data, status_placeholders,
                   progress, outcome, attempt_reports, attempts_made, fails,
                   model_calls, results, tries, doc_events, run_attempts,
                   outVars, normVars, parseVars>>

\* lines 172-177: the return value of process_pdf is collected
EndDoc ==
    /\ pc = "ret"
    /\ data' = Collect(data, result)
    /\ IF result # None
       THEN UNCHANGED <<status_placeholders, doc_events>>
       ELSE /\ status_placeholders' =
                   [status_placeholders EXCEPT ![1] = <<"error", "Failed">>]
            /\ doc_events' = [doc_events EXCEPT ![idx] = Append(@, "failed")]
    /\ results' = Append(results, result)
    /\ tries' = Append(tries, attempts_made)
    /\ progress' = ProgressAfter(idx)
    /\ idx' = idx + 1
    /\ pc' = IF idx < Len(pdf_files) THEN "loop" ELSE "finish"
    \* the frame of process_pdf is gone
    /\ attempt' = 0 /\ result' = None /\ outcome' = "none"
    /\ attempt_reports' = {} /\ attempts_made' = 0 /\ fails' = 0
    /\ model_calls' = 0 /\ waits' = 0 /\ slept' = 0
    /\ UNCHANGED <<sessionVars, runVars,
                   pdf_files, disk, countVars, outVars, normVars, parseVars>>

\* lines 179-210, and the end of the TemporaryDirectory block
Finish ==
    /\ pc = "finish"
    /\ session_data' = IF Truthy(Some(data)) THEN Some(data) ELSE session_data
    /\ IF Truthy(session_data')
       THEN /\ table' = session_data'
            /\ errors' = IF Truthy(Some(data)) THEN 0 ELSE 1
       ELSE /\ table' = None
            /\ errors' = (IF Truthy(Some(data)) THEN 0 ELSE 1) + 1
    /\ df' = ShownFrame(table')
    /\ disk' = EmptyDisk
    /\ pc' = "idle"
    /\ UNCHANGED <<uploaded_file_names, runVars,
                   pdf_files, idx, data, status_placeholders, progress,
                   docVars, results, tries, doc_events, countVars, normVars, parseVars>>

Next ==
    \/ RunHalt
    \/ RunNoFiles
    \/ RunCached
    \/ RunProcess
    \/ BeginDoc
    \/ AttemptOk
    \/ AttemptFail
    \/ Sleep
    \/ EndDoc
    \/ Finish

Spec == Init /\ [][Next]_vars

\* lines 168-177: the steps of the batch loop; by the position of the
\* script at most one kind of step is possible at a time
LoopStep == BeginDoc \/ AttemptFail \/ AttemptOk \/ Sleep \/ EndDoc

\* the loop waits for no input: rasterization, the model call and the sleep
\* return, so the step the script is at is eventually taken
FairSpec == Spec /\ WF_vars(LoopStep)


\* ------------------------------------------------------------- properties
BatchOver == pc = "finish" \/ (pc = "idle" /\ run_kind = "batch")

\* a run has just begun with the credential and at least one upload
BatchInvoked == runs' = runs + 1 /\ api_key' /\ uploaded_files' # <<>>

\* C1, as stated: when process_pdf returns a record after k failed attempts
\* exactly k+1 model calls were made and the record is that of attempt k+1;
\* when it returns None, max_retries attempts were made and all failed; no
\* attempt follows a successful one.
C1_Original ==
    /\ pc = "ret" /\ result # None =>
           /\ model_calls = fails + 1
           /\ result[1].attempt = fails + 1
    /\ pc = "ret" /\ result = None =>
           /\ attempts_made = max_retries
           /\ fails = max_retries
    /\ pc \in {"try", "sleep"} => outcome # "ok"

\* C1, amended: the same with pipeline attempts counted instead of model
\* calls; every attempt makes at most one model call, and an attempt that
\* fails at rasterization makes none.
C1_Retry ==
    /\ pc = "ret" /\ result # None =>
           /\ attempts_made = fails + 1
           /\ fails < max_retries
           /\ result[1].attempt = fails + 1
           /\ outcome = "ok"
           /\ 1 <= model_calls /\ model_calls <= attempts_made
    /\ pc = "ret" /\ result = None =>
           /\ attempts_made = max_retries
           /\ fails = max_retries
           /\ outcome \notin {"ok", "none"}
           /\ model_calls <= attempts_made
    /\ pc \in {"try", "sleep"} =>
           /\ outcome # "ok" /\ result = None
           /\ attempts_made = fails /\ fails < max_retries

C1_Witness ==
    /\ pc = "ret" /\ result # None
    /\ fails = max_retries - 1
    /\ model_calls < attempts_made

\* C2, as stated: a batch invocation with the identifier set of the previous
\* one returns the previous result and calls the model not at all, whatever
\* the previous outcome was.
C2_Original ==
    [][ BatchInvoked /\ Range(uploaded_files') = Range(uploaded_file_names) =>
            /\ run_kind' = "cached" /\ pc' = "idle"
            /\ run_attempts' = 0 /\ model_calls' = 0
            /\ session_data' = session_data
            /\ table' = session_data ]_vars

\* C2, amended: when the previous batch invocation produced at least one
\* record and the sorted identifier list (identifiers with their
\* multiplicity) is the same, the cached result is shown and no attempt is
\* made; when the previous invocation produced no record the batch is
\* processed again.
C2_CacheHit ==
    [][ BatchInvoked /\ sorted(uploaded_files') = uploaded_file_names =>
            IF session_data # None
            THEN /\ run_kind' = "cached" /\ pc' = "idle"
                 /\ run_attempts' = 0 /\ model_calls' = 0
                 /\ session_data' = session_data
                 /\ table' = session_data /\ table' # None
                 /\ errors' = 0
            ELSE /\ run_kind' = "batch" /\ pc' = "loop" ]_vars

C2_Witness ==
    /\ run_kind = "cached" /\ pc = "idle"
    /\ table # None /\ table = session_data
    /\ Len(uploaded_files) = 2 /\ uploaded_files # uploaded_file_names

\* C3: a batch invocation whose identifier set differs from the previous
\* one drops the cache before processing, every document of the new batch
\* is attempted, and every record of the result was made in this run.
C3_Invalidate ==
    /\ [][ BatchInvoked /\ Range(uploaded_files') # Range(uploaded_file_names) =>
               /\ session_data' = None
               /\ run_kind' = "batch" /\ pc' = "loop"
               /\ data' = <<>> /\ idx' = 1
               /\ pdf_files' = uploaded_files' ]_vars
    /\ [](BatchOver =>
               /\ Len(tries) = Len(pdf_files)
               /\ \A i \in 1..Len(tries) : tries[i] >= 1
               /\ \A j \in 1..Len(data) : data[j].run = runs)
    /\ [](pc = "idle" /\ run_kind = "batch" /\ table # None =>
               \A j \in 1..Len(table[1]) : table[1][j].run = runs)

C3_Witness ==
    /\ pc = "idle" /\ run_kind = "batch"
    /\ prior_cached
    /\ table # None /\ Len(table[1]) = Len(pdf_files)

\* C4: with N documents of which M returned None, data holds exactly N-M
\* records, the records of the succeeding documents in input order, and
\* nothing for a failed document.
C4_BatchResult ==
    BatchOver =>
        LET N == Len(pdf_files)
            failed == {i \in 1..N : results[i] = None}
        IN
        /\ Len(results) = N
        /\ Len(data) = N - Cardinality(failed)
        /\ \A j \in 1..Len(data) :
               /\ data[j].idx \in (1..N) \ failed
               /\ results[data[j].idx] = Some(data[j])
               /\ DictGet(data[j].fields, PdfFileKey) = pdf_files[data[j].idx]
        /\ \A j, k \in 1..Len(data) : j < k => data[j].idx < data[k].idx
        /\ \A i \in (1..N) \ failed : \E j \in 1..Len(data) : data[j].idx = i
        /\ \A i \in failed : tries[i] = max_retries

C4_Witness ==
    /\ pc = "idle" /\ run_kind = "batch"
    /\ Len(results) = 2
    /\ results[1] # None /\ results[2] = None
    /\ Len(data) = 1

\* C5: a document that exhausts its retries does not end the batch: once
\* the loop is over every document of the batch has had at least one
\* attempt, and the loop takes the documents one after the other.
C5_NoAbort ==
    /\ BatchOver =>
           /\ Len(tries) = Len(pdf_files)
           /\ \A i \in 1..Len(pdf_files) : tries[i] >= 1
    /\ pc \in {"loop", "try", "sleep", "ret"} =>
           /\ idx \in 1..Len(pdf_files)
           /\ Len(tries) = idx - 1

C5_Witness ==
    /\ pc = "idle" /\ run_kind = "batch"
    /\ Len(results) = 2
    /\ results[1] = None /\ tries[1] = max_retries
    /\ tries[2] >= 1

\* C6: for every document the statuses reported are 'processing', before the
\* first attempt, and then exactly one terminal status: 'success' when the
\* document yielded a record, 'failed' when it exhausted its retries.
C6_Claim ==
    /\ pc = "try" /\ attempts_made = 0 => doc_events[idx] = <<"processing">>
    /\ \A i \in 1..Len(results) :
           doc_events[i] =
               <<"processing", IF results[i] # None THEN "success" ELSE "failed">>

\* C7: when an attempt has ended, with a record, a model-call error or a
\* parse error, the temp image of the document is no longer in temp_dir.
C7_Claim ==
    pc \in {"sleep", "ret"}
        /\ outcome \in {"ok", "model_error", "no_json", "bad_json"} =>
            disk[ImagePath(pdf_files[idx])] = 0

\* C8: after a batch run the "no data" error is shown exactly when no record
\* was produced; then no table is shown and nothing is stored; otherwise the
\* table of the records is shown and stored, and no error is shown.
C8_EmptyResult ==
    pc = "idle" /\ run_kind = "batch" =>
        /\ (errors > 0) <=> (data = <<>>)
        /\ data = <<>> => table = None /\ session_data = None
        /\ data # <<>> =>
               table = Some(data) /\ session_data = Some(data) /\ errors = 0

C8_Witness ==
    /\ pc = "idle" /\ run_kind = "batch"
    /\ data = <<>> /\ errors > 0 /\ Len(pdf_files) = 2

\* C9: a run without the credential stops before anything is done: nothing
\* is written to temp_dir, no attempt and no model call is made, and the
\* cached data and the cached names stay as they were.
C9_MissingKey ==
    /\ [][ runs' = runs + 1 /\ ~api_key' =>
               /\ run_kind' = "halted" /\ pc' = "idle"
               /\ session_data' = session_data
               /\ uploaded_file_names' = uploaded_file_names ]_vars
    /\ [](runs > 0 /\ ~api_key =>
               /\ run_kind = "halted" /\ pc = "idle"
               /\ disk = EmptyDisk /\ pdf_files = <<>>
               /\ run_attempts = 0 /\ model_calls = 0
               /\ data = <<>> /\ table = None)

C9_Witness ==
    /\ run_kind = "halted" /\ ~api_key /\ pc = "idle"
    /\ session_data # None
    /\ uploaded_file_names # <<>>
    /\ disk = EmptyDisk /\ run_attempts = 0


\* --------------------------------------- normalize_field_names on its own
\* raw keys: spellings of table keys, of a canonical name and of an unmapped
\* key, bare or padded with whitespace
KeySpellings ==
    { <<"d", "a", "t", "e">>, <<"D", "a", "t", "e">>, <<"D", "A", "T", "E">>,
      <<"p", "o", "#">>,
      <<"I", "N", "V", "O", "I", "C", "E", "_", "D", "A", "T", "E">>,
      <<"t", "o", "t", "a", "l">> }

KeyInputs ==
    UNION { {k, <<" ">> \o k, k \o <<"\t">>} : k \in KeySpellings }

ValueInputs == {"v1", "v2"}

\* the dicts of at most MaxKeys items with pairwise distinct keys
DictInputs ==
    { d \in SeqsUpTo(KeyInputs \X ValueInputs, MaxKeys) :
          \A i, j \in 1..Len(d) : i # j => d[i][1] # d[j][1] }

NormInit ==
    /\ SessionInit
    /\ pc = "idle" /\ runs = 0 /\ run_kind = "none"
    /\ api_key = TRUE /\ uploaded_files = <<>>
    /\ prior_cached = FALSE
    /\ FreshRun
    /\ norm_pc = "in" /\ norm_in \in DictInputs /\ norm_out = <<>>
    /\ norm_twice = <<>>
    /\ parse_pc = "off" /\ response_text = <<>> /\ parse_result = None

\* lines 71-76
NormApply ==
    /\ norm_pc = "in"
    /\ norm_out' = normalize_field_names(norm_in)
    /\ norm_pc' = "out"
    /\ UNCHANGED <<sessionVars, pc, runVars, batchVars, docVars, countVars,
                   outVars, norm_in, norm_twice, parseVars>>

\* lines 71-76, called with the mapping it returned
NormAgain ==
    /\ norm_pc = "out"
    /\ norm_twice' = normalize_field_names(norm_out)
    /\ norm_pc' = "twice"
    /\ UNCHANGED <<sessionVars, pc, runVars, batchVars, docVars, countVars,
                   outVars, norm_in, norm_out, parseVars>>

NormNext ==
    \/ NormApply
    \/ NormAgain

NormSpec == NormInit /\ [][NormNext]_vars

\* the last item of d whose key normalizes to nk
LastWith(d, nk) ==
    d[CHOOSE i \in 1..Len(d) :
          /\ NormalizedKey(d[i][1]) = nk
          /\ \A j \in (i + 1)..Len(d) : NormalizedKey(d[j][1]) # nk]

\* C10, as stated: the output has exactly as many entries as the input and
\* every input value is found under the normalized key of its key.
C10_Original ==
    norm_pc = "out" =>
        /\ Len(norm_out) = Len(norm_in)
        /\ \A i \in 1..Len(norm_in) :
               /\ HasKey(norm_out, NormalizedKey(norm_in[i][1]))
               /\ DictGet(norm_out, NormalizedKey(norm_in[i][1])) = norm_in[i][2]

\* C10, amended: the function is total; the output has one entry for every
\* distinct normalized key of the input, so as many entries as the input
\* exactly when no two input keys normalize to the same key; the value under
\* a normalized key is that of the last input entry normalizing to it.
C10_Entries ==
    norm_pc = "out" =>
        LET nks == {NormalizedKey(norm_in[i][1]) : i \in 1..Len(norm_in)} IN
        /\ DictKeys(norm_out) = nks
        /\ Len(norm_out) = Cardinality(nks)
        /\ Len(norm_out) <= Len(norm_in)
        /\ (Len(norm_out) = Len(norm_in)) <=>
               (\A i, j \in 1..Len(norm_in) :
                    i # j => NormalizedKey(norm_in[i][1]) # NormalizedKey(norm_in[j][1]))
        /\ \A nk \in nks : DictGet(norm_out, nk) = LastWith(norm_in, nk)[2]

C10_Witness ==
    /\ norm_pc = "out"
    /\ Len(norm_in) = 2 /\ Len(norm_out) = 1
    /\ norm_in[1][2] # norm_in[2][2]
    /\ norm_out[1][2] = norm_in[2][2]


\* the keys of field_name_mapping
MappingKeys == {e[1] : e \in field_name_mapping}

\* the canonical name the table gives for the table key k
CanonicalName(k) == (CHOOSE e \in field_name_mapping : e[1] = k)[2]

\* C11: a key whose trimmed, upper-cased form is a table key comes out as the
\* canonical name of the table, every other key as its trimmed, upper-cased
\* form; and normalizing the output again changes nothing.
C11_Normalizer ==
    /\ norm_pc \in {"out", "twice"} =>
           /\ \A i \in 1..Len(norm_in) :
                  LET k == upper(strip(norm_in[i][1])) IN
                  IF k \in MappingKeys
                  THEN HasKey(norm_out, CanonicalName(k))
                  ELSE HasKey(norm_out, k)
           /\ \A j \in 1..Len(norm_out) :
                  \E i \in 1..Len(norm_in) :
                      LET k == upper(strip(norm_in[i][1])) IN
                      norm_out[j][1] = IF k \in MappingKeys THEN CanonicalName(k) ELSE k
    /\ norm_pc = "twice" => norm_twice = norm_out

C11_Witness ==
    /\ norm_pc = "twice"
    /\ norm_twice = norm_out
    /\ Len(norm_out) = 2
    /\ \E i \in 1..2 : upper(strip(norm_in[i][1])) \in MappingKeys
                        /\ norm_in[i][1] \notin MappingKeys
    /\ \E i \in 1..2 : upper(strip(norm_in[i][1])) \notin MappingKeys
                        /\ norm_in[i][1] # upper(strip(norm_in[i][1]))


\* ------------------------------------------------ the parsing step on its own
TextInputs == SeqsUpTo(Tokens, MaxText)

ParseInit ==
    /\ SessionInit
    /\ pc = "idle" /\ runs = 0 /\ run_kind = "none"
    /\ api_key = TRUE /\ uploaded_files = <<>>
    /\ prior_cached = FALSE
    /\ FreshRun
    /\ norm_pc = "off" /\ norm_in = <<>> /\ norm_out = <<>>
    /\ norm_twice = <<>>
    /\ parse_pc = "in" /\ response_text \in TextInputs /\ parse_result = None

\* lines 129-137
ParseApply ==
    /\ parse_pc = "in"
    /\ parse_result' = Some(ParseResponse(response_text))
    /\ parse_pc' = "out"
    /\ UNCHANGED <<sessionVars, pc, runVars, batchVars, docVars, countVars,
                   outVars, normVars, response_text>>

ParseNext == ParseApply

ParseSpec == ParseInit /\ [][ParseNext]_vars

\* the spans of text that are well-formed JSON objects
ObjectSpans(text) ==
    {sp \in (1..Len(text)) \X (1..Len(text)) :
         sp[1] < sp[2] /\ IsObject(SubSeq(text, sp[1], sp[2]))}

\* text holds exactly one JSON object: one span contains every other
TheObject(text, sp) ==
    /\ sp \in ObjectSpans(text)
    /\ \A o \in ObjectSpans(text) : sp[1] <= o[1] /\ o[2] <= sp[2]

Recovered(text, sp) ==
    parse_result[1] =
        [kind |-> "ok", obj |-> json_loads(SubSeq(text, sp[1], sp[2]))]

NoBracePair(text) ==
    ~\E i, j \in 1..Len(text) : i < j /\ text[i] = "{" /\ text[j] = "}"

\* C12, as stated: from a text with exactly one well-formed object, whatever
\* surrounds it, the parsing step recovers that object; a text without a
\* '{' ... '}' pair makes the parsing step fail.
C12_Original ==
    parse_pc = "out" =>
        /\ \A sp \in (1..Len(response_text)) \X (1..Len(response_text)) :
               TheObject(response_text, sp) => Recovered(response_text, sp)
        /\ NoBracePair(response_text) => parse_result[1].kind = "no_json"

\* C12, amended: the object is recovered when the text before it holds no
\* '{' and the text after it holds no '}'; a text without a '{' ... '}' pair
\* makes the parsing step fail with an outcome that fails the attempt.
C12_Parse ==
    parse_pc = "out" =>
        /\ \A sp \in (1..Len(response_text)) \X (1..Len(response_text)) :
               /\ TheObject(response_text, sp)
               /\ \A i \in 1..(sp[1] - 1) : response_text[i] # "{"
               /\ \A j \in (sp[2] + 1)..Len(response_text) : response_text[j] # "}"
               => Recovered(response_text, sp)
        /\ NoBracePair(response_text) =>
               /\ parse_result[1].kind = "no_json"
               /\ parse_result[1].kind \in Outcomes \ {"ok"}
        /\ parse_result[1].kind \in {"ok", "no_json", "bad_json"}

C12_Witness ==
    /\ parse_pc = "out"
    /\ Len(response_text) >= 5
    /\ response_text[1] = "p" /\ response_text[Len(response_text)] = "p"
    /\ parse_result[1].kind = "ok"
    /\ parse_result[1].obj # <<>>


ExpectedColumns ==
    << <<"I", "N", "V", "O", "I", "C", "E", "_", "N", "O">>,
       <<"I", "N", "V", "O", "I", "C", "E", "_", "D", "A", "T", "E">>,
       <<"P", "O", "_", "N", "U", "M", "B", "E", "R">>,
       <<"M", "E", "R", "C", "H", "A", "N", "D", "I", "S", "E", "_", "N", "E", "T">>,
       <<"F", "R", "E", "I", "G", "H", "T", "_", "C", "H", "A", "R", "G", "E">>,
       <<"S", "M", "A", "L", "L", "_", "O", "R", "D", "E", "R", "_", "F", "E", "E">>,
       <<"I", "N", "V", "O", "I", "C", "E", "_", "T", "O", "T", "A", "L">>,
       <<"p", "d", "f", "_", "f", "i", "l", "e">> >>

\* C13: the frame shown has the eight columns in the fixed order and one row
\* per record; a canonical column holds the record's value for that field,
\* or nothing when the record lacks it; the pdf_file column holds the name
\* of the document the record came from, whatever keys the model returned.
C13_Table ==
    pc = "idle" /\ table # None =>
        /\ df # None
        /\ df[1].columns = ExpectedColumns
        /\ Len(df[1].rows) = Len(table[1])
        /\ \A r \in 1..Len(table[1]) :
               /\ Len(df[1].rows[r]) = 8
               /\ \A c \in 1..7 :
                      df[1].rows[r][c] =
                          IF HasKey(table[1][r].fields, ExpectedColumns[c])
                          THEN Some(DictGet(table[1][r].fields, ExpectedColumns[c]))
                          ELSE None
               /\ df[1].rows[r][8] # None
               /\ df[1].rows[r][8][1] \in Range(uploaded_file_names)
               /\ run_kind = "batch" =>
                      df[1].rows[r][8] = Some(pdf_files[table[1][r].idx])

C13_Witness ==
    /\ pc = "idle" /\ run_kind = "batch" /\ df # None
    /\ Len(df[1].rows) = 2
    /\ df[1].rows[1][1] # None /\ df[1].rows[1][3] = None
    /\ df[1].rows[1][8] = Some("a.pdf")
    /\ HasKey(table[1][1].fields, <<"P", "D", "F", "_", "F", "I", "L", "E">>)
    /\ df[1].rows[2][1] = None /\ df[1].rows[2][2] = Some("2024-02-06")
    /\ df[1].rows[2][8] = Some("b.pdf")


\* C14: a document that failed f attempts has slept min(f, max_retries - 1)
\* times, every time for retry_delay seconds; a sleep only follows a failed
\* attempt that is not the last, and is followed by the next attempt.
C14_Waits ==
    /\ pc = "ret" =>
           /\ waits = (IF fails < max_retries - 1 THEN fails ELSE max_retries - 1)
           /\ slept = waits * retry_delay
           /\ result # None => waits = fails
           /\ result = None => waits = fails - 1
    /\ pc = "sleep" =>
           /\ outcome \notin {"ok", "none"}
           /\ fails <= max_retries - 1
           /\ waits = fails - 1
    /\ pc = "try" =>
           /\ waits = fails /\ attempt = waits
           /\ slept = waits * retry_delay

C14_Witness ==
    /\ pc = "ret" /\ result = None
    /\ fails = max_retries /\ waits = max_retries - 1
    /\ slept = 10


\* C15: for any two distinct documents of a batch the stored PDF path and
\* the temp image path of one differ from those of the other, and every
\* record is extracted from the byte content of its own document.
C15_Claim ==
    /\ \A i, j \in 1..Len(pdf_files) :
           i # j => /\ PdfPath(pdf_files[i]) # PdfPath(pdf_files[j])
                    /\ ImagePath(pdf_files[i]) # ImagePath(pdf_files[j])
    /\ \A k \in 1..Len(data) : data[k].src = data[k].idx

\* C16: an attempt that failed because the response has no embedded JSON
\* object, or because the embedded text does not decode, has reported a
\* warning and the raw response text.
C16_Claim ==
    pc \in {"sleep", "ret"} /\ outcome \in {"no_json", "bad_json"} =>
        /\ "warning_error" \in attempt_reports
        /\ "info_response_text" \in attempt_reports


\* C17: at every moment of a session the cached result is None or a
\* non-empty list of records, whose documents are among the cached
\* identifiers; a result is cached only at the end of a batch, with the
\* cached identifier list equal to the sorted identifiers of that batch,
\* and the list does not change while the result stays cached.
C17_Cache ==
    /\ [](session_data # None =>
            /\ session_data[1] # <<>>
            /\ \A k \in 1..Len(session_data[1]) :
                   DictGet(session_data[1][k].fields, PdfFileKey)
                       \in Range(uploaded_file_names))
    /\ [][session_data' # None =>
            IF session_data' # session_data
            THEN /\ pc = "finish"
                 /\ uploaded_file_names' = sorted(pdf_files)
            ELSE uploaded_file_names' = uploaded_file_names]_vars

C17_Witness ==
    /\ pc = "idle" /\ run_kind = "batch" /\ prior_cached
    /\ session_data # None
    /\ Len(session_data[1]) < Len(pdf_files)
    /\ uploaded_file_names = sorted(pdf_files)


\* C18, as stated: a run without uploads changes neither the cached result
\* nor the cached identifiers, makes no attempt and reports nothing, and a
\* later batch invocation with the identifier set of the cached result is
\* served from the cache.
C18_Original ==
    /\ [][ runs' = runs + 1 /\ uploaded_files' = <<>> =>
               /\ session_data' = session_data
               /\ uploaded_file_names' = uploaded_file_names
               /\ pc' = "idle"
               /\ run_attempts' = 0 /\ model_calls' = 0
               /\ errors' = 0 /\ table' = None ]_vars
    /\ [][ run_kind = "nofiles" /\ session_data # None /\ BatchInvoked
               /\ Range(uploaded_files') = Range(uploaded_file_names) =>
               /\ run_kind' = "cached"
               /\ table' = session_data ]_vars

\* C18, amended: a run with the credential and without uploads ends at
\* line 38 with the cache as it was, no attempt made and nothing shown; a
\* following batch invocation whose sorted identifier list (identifiers
\* with their multiplicity) is the cached one is served from the cache.
C18_Frame ==
    /\ [][ runs' = runs + 1 /\ api_key' /\ uploaded_files' = <<>> =>
               /\ run_kind' = "nofiles" /\ pc' = "idle"
               /\ session_data' = session_data
               /\ uploaded_file_names' = uploaded_file_names
               /\ pdf_files' = <<>> /\ disk' = EmptyDisk
               /\ run_attempts' = 0 /\ model_calls' = 0
               /\ status_placeholders' = <<>> /\ doc_events' = <<>>
               /\ errors' = 0 /\ table' = None /\ df' = None ]_vars
    /\ [][ run_kind = "nofiles" /\ session_data # None /\ BatchInvoked
               /\ sorted(uploaded_files') = uploaded_file_names =>
               /\ run_kind' = "cached" /\ pc' = "idle"
               /\ run_attempts' = 0 /\ model_calls' = 0
               /\ session_data' = session_data
               /\ table' = session_data ]_vars

C18_Witness ==
    /\ run_kind = "nofiles" /\ pc = "idle" /\ api_key
    /\ uploaded_files = <<>>
    /\ session_data # None /\ uploaded_file_names # <<>>


\* C19: process_pdf returns a record only from an attempt in which every
\* step succeeded, the removal of the temp image included; an attempt whose
\* removal failed after a successful parse has made its model call, leaves
\* no record, counts as failed, and is retried unless it was the last.
C19_RemoveFailure ==
    /\ pc = "ret" /\ result # None =>
           /\ outcome = "ok"
           /\ model_calls >= 1
           /\ disk[ImagePath(pdf_files[idx])] = 0
    /\ pc \in {"sleep", "ret"} /\ outcome = "remove_error" =>
           /\ result = None
           /\ model_calls >= 1
           /\ fails = attempts_made
           /\ "warning_error" \in attempt_reports
           /\ pc = "sleep" <=> fails < max_retries
           /\ pc = "ret" <=> "error_all_failed" \in attempt_reports
    /\ \A k \in 1..Len(results) :
           results[k] # None <=> \E j \in 1..Len(data) : data[j].idx = k

C19_Witness ==
    /\ pc = "ret" /\ outcome = "remove_error"
    /\ result = None /\ fails = max_retries
    /\ model_calls = max_retries


\* C20: a batch run of N documents always reaches the end of the loop
\* (line 179, 'All files processed'); it makes at most N * max_retries attempts and
\* at most N * (max_retries - 1) waits; the progress value never decreases
\* during the run and is N of N when the loop is over.
C20_Terminates ==
    /\ (pc \notin {"idle", "finish"}) ~> (pc = "finish")
    /\ [](/\ run_attempts <= Len(pdf_files) * max_retries
          /\ run_waits <= Len(pdf_files) * (max_retries - 1)
          /\ model_calls <= attempts_made
          /\ progress <= Len(pdf_files))
    /\ [](BatchOver => progress = Len(pdf_files))
    /\ [][pc # "idle" => progress' >= progress]_vars

C20_Witness ==
    /\ pc = "finish" /\ Len(pdf_files) = 2
    /\ progress = Len(pdf_files)
    /\ run_attempts = Len(pdf_files) * max_retries
    /\ run_waits = Len(pdf_files) * (max_retries - 1)

====
